---------------------------- MODULE Spec2Model ----------------------------
(***************************************************************************)
(* analyzeIPRoute.py: a 'show ip route' dump is parsed with the TextFSM    *)
(* template that build_iproute_template() writes, the records are          *)
(* deduplicated on (PROTOCOL, NETWORK, MASK) and counted per protocol.     *)
(*                                                                         *)
(* Text is modelled as sequences of one-character strings, so that the     *)
(* template's regular expressions are matched character by character with  *)
(* the priorities of a backtracking matcher (greedy quantifiers, first     *)
(* alternative first), and captures are the substrings the groups cover.   *)
(***************************************************************************)
EXTENDS Integers, Sequences, FiniteSets, TLC

(***************************************************************************)
(* Characters and the character classes the template uses.  A character is *)
(* a one-character string, one of U+0000 to U+00FF (what a string of the   *)
(* module can hold); the classes are those of Python's re for str patterns *)
(* compiled without flags, on these characters.                            *)
(***************************************************************************)
\* \d: the decimal digits; of the characters a text can hold these are 0-9.
Digit == {"0","1","2","3","4","5","6","7","8","9"}
\* [A-Z]
Upper == {"A","B","C","D","E","F","G","H","I","J","K","L","M",
          "N","O","P","Q","R","S","T","U","V","W","X","Y","Z"}
Lower == {"a","b","c","d","e","f","g","h","i","j","k","l","m",
          "n","o","p","q","r","s","t","u","v","w","x","y","z"}
\* The letters and the numeric characters from U+0080 to U+00FF.
HighLetter ==
    {"ª","µ","º","À","Á","Â","Ã","Ä","Å","Æ","Ç","È","É","Ê","Ë","Ì",
    "Í","Î","Ï","Ð","Ñ","Ò","Ó","Ô","Õ","Ö","Ø","Ù","Ú","Û","Ü","Ý",
    "Þ","ß","à","á","â","ã","ä","å","æ","ç","è","é","ê","ë","ì","í",
    "î","ï","ð","ñ","ò","ó","ô","õ","ö","ø","ù","ú","û","ü","ý","þ",
    "ÿ"}
HighNumeric == {"²","³","¹","¼","½","¾"}
\* \w: the alphanumeric characters and the underscore.
WordChar == Digit \cup Upper \cup Lower \cup {"_"} \cup HighLetter \cup HighNumeric
\* The control characters 0x0B, 0x1C, 0x1D, 0x1E and 0x1F, the next-line
\* character U+0085 and the no-break space U+00A0.
VerticalTab == ""
FileSep == ""
GroupSep == ""
RecordSep == ""
UnitSep == ""
NextLine == ""
NoBreakSpace == " "
\* \s: the white space characters.
Space ==
    { " ", "\t", "\n", "\r", "\f", VerticalTab, FileSep, GroupSep, RecordSep,
      UnitSep, NextLine, NoBreakSpace }
NewLine == "\n"
\* The characters at which str.splitlines() ends a line.
LineBreak ==
    { "\n", "\r", "\f", VerticalTab, FileSep, GroupSep, RecordSep, NextLine }

\* Python's None: a value that is no text (a text holds one-character strings).
None == <<"<None>">>
EmptyStr == <<>>

\* c is in the character class cls: \w \d \s . [A-Z] [\w\-\.:/] [\w:\.]
InClass(c, cls) ==
    CASE cls = "w"   -> c \in WordChar
      [] cls = "d"   -> c \in Digit
      [] cls = "s"   -> c \in Space
      [] cls = "any" -> c # NewLine
      [] cls = "AZ"  -> c \in Upper
      [] cls = "ifc" -> c \in WordChar \cup {"-", ".", ":", "/"}
      [] cls = "upt" -> c \in WordChar \cup {":", "."}

(***************************************************************************)
(* Regular expressions: a sequence of items.                               *)
(*   Lit(cs)          the literal characters cs                            *)
(*   Rep(cls, lo, hi) lo..hi characters of a class, greedy                 *)
(*   Plus/Star(cls)   cls+ and cls*                                        *)
(*   Val(name)        ${name}: the named group (?P<name>pattern of name)   *)
(*   Opt(re)          (re)?                                                *)
(*   Alt(a, b)        (a|b)                                                *)
(***************************************************************************)
Lit(cs) == [t |-> "lit", cs |-> cs]
Rep(cls, lo, hi) == [t |-> "rep", cls |-> cls, lo |-> lo, hi |-> hi, inf |-> FALSE]
Plus(cls) == [t |-> "rep", cls |-> cls, lo |-> 1, hi |-> 0, inf |-> TRUE]
Star(cls) == [t |-> "rep", cls |-> cls, lo |-> 0, hi |-> 0, inf |-> TRUE]
One(cls) == Rep(cls, 1, 1)
Val(name) == [t |-> "val", name |-> name]
Opt(re) == [t |-> "opt", re |-> re]
Alt(a, b) == [t |-> "alt", a |-> a, b |-> b]

\* \d{1,3}.\d{1,3}.\d{1,3}.\d{1,3}  (the dots are unescaped: any character)
DottedQuad ==
    << Rep("d", 1, 3), One("any"), Rep("d", 1, 3), One("any"),
       Rep("d", 1, 3), One("any"), Rep("d", 1, 3) >>

(***************************************************************************)
(* The Value declarations of the template, in declaration order.           *)
(***************************************************************************)
\* Mutant: NETWORK is declared before TYPE.
ValueNamesNetworkSecond ==
    << "PROTOCOL", "NETWORK", "TYPE", "MASK", "DISTANCE", "METRIC",
       "NEXTHOP_IP", "NEXTHOP_IF", "UPTIME" >>

ValueNames ==
    << "PROTOCOL", "TYPE", "NETWORK", "MASK", "DISTANCE", "METRIC",
       "NEXTHOP_IP", "NEXTHOP_IF", "UPTIME" >>
NameSet == { ValueNames[i] : i \in DOMAIN ValueNames }

\* Mutant: NETWORK declared Filldown only, not Required.
ValueOptionsNetworkOptional ==
    [ PROTOCOL   |-> {"Filldown"},
      TYPE       |-> {"Filldown"},
      NETWORK    |-> {"Filldown"},
      MASK       |-> {"Filldown"},
      DISTANCE   |-> {},
      METRIC     |-> {},
      NEXTHOP_IP |-> {},
      NEXTHOP_IF |-> {},
      UPTIME     |-> {} ]

ValueOptions ==
    [ PROTOCOL   |-> {"Filldown"},
      TYPE       |-> {"Filldown"},
      NETWORK    |-> {"Required", "Filldown"},
      MASK       |-> {"Filldown"},
      DISTANCE   |-> {},
      METRIC     |-> {},
      NEXTHOP_IP |-> {},
      NEXTHOP_IF |-> {},
      UPTIME     |-> {} ]

ValuePattern ==
    [ PROTOCOL   |-> << One("w") >>,
      TYPE       |-> << Rep("w", 0, 2) >>,
      NETWORK    |-> DottedQuad,
      MASK       |-> << Rep("d", 1, 2) >>,
      DISTANCE   |-> << Plus("d") >>,
      METRIC     |-> << Plus("d") >>,
      NEXTHOP_IP |-> DottedQuad,
      NEXTHOP_IF |-> << One("AZ"), Plus("ifc") >>,
      UPTIME     |-> << One("d"), Plus("upt") >> ]

Filldown == { n \in NameSet : "Filldown" \in ValueOptions[n] }
Required == { n \in NameSet : "Required" \in ValueOptions[n] }

(***************************************************************************)
(* The rules.  A rule is its regex, its line operator (Next, Continue,     *)
(* Error or none), its record operator (Record, Clear, Clearall or none)   *)
(* and its new state (or none).                                            *)
(***************************************************************************)
Rule(regex, line_op, record_op, new_state) ==
    [ regex |-> regex, line_op |-> line_op, record_op |-> record_op,
      new_state |-> new_state ]

\* ^${PROTOCOL}(\s|\*)${TYPE}\s+${NETWORK}
RoutePrefix ==
    << Val("PROTOCOL"), Alt(<< One("s") >>, << Lit(<<"*">>) >>), Val("TYPE"),
       Plus("s"), Val("NETWORK") >>
\* \/${MASK}
SlashMask == << Lit(<<"/">>), Val("MASK") >>
\* \sis\sdirectly\sconnected,\s${NEXTHOP_IF}
DirectlyConnected ==
    << One("s"), Lit(<<"i","s">>), One("s"),
       Lit(<<"d","i","r","e","c","t","l","y">>), One("s"),
       Lit(<<"c","o","n","n","e","c","t","e","d",",">>), One("s"),
       Val("NEXTHOP_IF") >>
\* \[${DISTANCE}/${METRIC}\]
DistMetric ==
    << Lit(<<"[">>), Val("DISTANCE"), Lit(<<"/">>), Val("METRIC"), Lit(<<"]">>) >>
\* \svia\s${NEXTHOP_IP}
ViaHop == << One("s"), Lit(<<"v","i","a">>), One("s"), Val("NEXTHOP_IP") >>
\* (,\s${UPTIME})?(,\s${NEXTHOP_IF})?
UptimeIf ==
    << Opt(<< Lit(<<",">>), One("s"), Val("UPTIME") >>),
       Opt(<< Lit(<<",">>), One("s"), Val("NEXTHOP_IF") >>) >>

\* Mutant: any line takes the machine to Routes.
RuleAnyLine == Rule(<< Star("any") >>, "", "", "Routes")

\* ^Gateway.* -> Routes
RuleGateway ==
    Rule(<< Lit(<<"G","a","t","e","w","a","y">>), Star("any") >>, "", "", "Routes")
\* Mutant: the "is subnetted" rule clears all values, as its comment says.
RuleSubnettedClearall ==
    Rule(<< Plus("s") >> \o DottedQuad \o SlashMask
            \o << One("s"), Lit(<<"i","s">>) >>, "", "Clearall", "")

\* ^\s+\d{1,3}.\d{1,3}.\d{1,3}.\d{1,3}\/${MASK}\sis -> Clear
RuleSubnetted ==
    Rule(<< Plus("s") >> \o DottedQuad \o SlashMask
            \o << One("s"), Lit(<<"i","s">>) >>, "", "Clear", "")
\* Mutant: the rule for a connected route with a mask does not record.
RuleConnMaskNext ==
    Rule(RoutePrefix \o SlashMask \o DirectlyConnected, "Next", "", "")

\* directly connected route with explicit mask -> Record
RuleConnMask ==
    Rule(RoutePrefix \o SlashMask \o DirectlyConnected, "", "Record", "")
\* directly connected route, mask inherited -> Record
RuleConnNoMask ==
    Rule(RoutePrefix \o DirectlyConnected, "", "Record", "")
\* regular route with mask, all data in one line -> Record
RuleRouteMask ==
    Rule(RoutePrefix \o SlashMask \o << One("s") >> \o DistMetric \o ViaHop
            \o UptimeIf, "", "Record", "")
\* regular route in one line, mask inherited -> Record
RuleRouteNoMask ==
    Rule(RoutePrefix \o << One("s") >> \o DistMetric \o ViaHop \o UptimeIf,
         "", "Record", "")
\* route with no via statement -> Record
RuleNullRoute ==
    Rule(RoutePrefix \o SlashMask \o << One("s") >> \o DistMetric
            \o << Lit(<<",">>), One("s"), Val("UPTIME"), Lit(<<",">>), One("s"),
                  Val("NEXTHOP_IF") >>, "", "Record", "")
\* "is a summary" route -> Record
RuleSummary ==
    Rule(RoutePrefix \o SlashMask
            \o << One("s"), Lit(<<"i","s">>), One("s"), Lit(<<"a">>), One("s"),
                  Lit(<<"s","u","m","m","a","r","y",",">>), One("s"),
                  Val("UPTIME"), Lit(<<",">>), One("s"), Val("NEXTHOP_IF") >>,
         "", "Record", "")
\* network/mask on the line above the rest of the route -> Next
RuleNetMask == Rule(RoutePrefix \o SlashMask, "Next", "", "")
\* Mutant: the rule for a line with the network only goes back to Start.
RuleNetOnlyToStart == Rule(RoutePrefix, "Next", "", "Start")

\* network only on the line above the rest of the route -> Next
RuleNetOnly == Rule(RoutePrefix, "Next", "", "")
\* Mutant: the continuation rule needs the uptime.
RuleViaWithUptime ==
    Rule(<< Plus("s") >> \o DistMetric \o ViaHop
            \o << Lit(<<",">>), One("s"), Val("UPTIME"),
                  Opt(<< Lit(<<",">>), One("s"), Val("NEXTHOP_IF") >>) >>,
         "", "Record", "")

\* the rest of the route on the line below the network -> Record
RuleVia ==
    Rule(<< Plus("s") >> \o DistMetric \o ViaHop \o UptimeIf, "", "Record", "")
\* load-balanced routes -> Record
RuleLoadBalanced ==
    Rule(<< Plus("s") >> \o DistMetric \o ViaHop, "", "Record", "")
\* Mutant: the last rule needs white space at the start of the line.
RuleBlankSpaces == Rule(<< Plus("s") >>, "", "Clearall", "")

\* Mutant: a line no other rule of Routes matches is an error.
RuleBlankError == Rule(<< Star("s") >>, "Error", "", "")

\* ^\s* -> Clearall
RuleBlank == Rule(<< Star("s") >>, "", "Clearall", "")

\* Mutant: the template declares no EOF state.
StatesNoEOF ==
    [ Start  |-> << RuleGateway >>,
      Routes |-> << RuleSubnetted, RuleConnMask, RuleConnNoMask, RuleRouteMask,
                    RuleRouteNoMask, RuleNullRoute, RuleSummary, RuleNetMask,
                    RuleNetOnly, RuleVia, RuleLoadBalanced, RuleBlank >> ]

\* The states of the template, each with its rules in declared order.
States ==
    [ Start  |-> << RuleGateway >>,
      Routes |-> << RuleSubnetted, RuleConnMask, RuleConnNoMask, RuleRouteMask,
                    RuleRouteNoMask, RuleNullRoute, RuleSummary, RuleNetMask,
                    RuleNetOnly, RuleVia, RuleLoadBalanced, RuleBlank >>,
      EOF    |-> << >> ]

(***************************************************************************)
(* Matching, as re.match does it: from the start of the line, not          *)
(* necessarily to its end.  Matches(re, s, m) is the sequence of the ways  *)
(* re can match s from the partial match m, in the order in which a        *)
(* backtracking matcher tries them (greedy repetitions longest first, an   *)
(* optional group taken before skipped, the left alternative before the    *)
(* right); the match found is the first of them.  Expressions and lists    *)
(* of partial matches are split in halves to keep the evaluation shallow.  *)
(***************************************************************************)
RECURSIVE GroupNames(_)
GroupNames(re) ==
    IF re = << >> THEN {}
    ELSE LET it == Head(re)
             here == CASE it.t = "val" -> {it.name}
                       [] it.t = "opt" -> GroupNames(it.re)
                       [] it.t = "alt" -> GroupNames(it.a) \cup GroupNames(it.b)
                       [] OTHER -> {}
         IN  here \cup GroupNames(Tail(re))

\* The number of consecutive characters of class cls from position i of s,
\* at most max.
RunLength(s, i, cls, max) ==
    LET top == IF Len(s) - i + 1 < max THEN Len(s) - i + 1 ELSE max
        runs == { k \in 0..top : \A j \in 1..k : InClass(s[i + j - 1], cls) }
    IN  CHOOSE k \in runs : \A l \in runs : l <= k

HasPrefixAt(s, i, cs) ==
    /\ i + Len(cs) - 1 <= Len(s)
    /\ \A k \in 1..Len(cs) : s[i + k - 1] = cs[k]

RECURSIVE Matches(_, _, _)
RECURSIVE MatchesAll(_, _, _)
Matches(re, s, m) ==
    IF Len(re) = 0 THEN << m >>
    ELSE IF Len(re) = 1 THEN
      LET it == re[1]
      IN CASE it.t = "lit" ->
                IF HasPrefixAt(s, m.end, it.cs)
                THEN << [m EXCEPT !.end = m.end + Len(it.cs)] >> ELSE << >>
           [] it.t = "rep" ->
                LET n == RunLength(s, m.end, it.cls,
                                   IF it.inf THEN Len(s) ELSE it.hi)
                IN  [ j \in 1..(n - it.lo + 1) |->
                        [m EXCEPT !.end = m.end + n - j + 1] ]
           [] it.t = "val" ->
                LET inner == Matches(ValuePattern[it.name], s, m)
                IN  [ j \in DOMAIN inner |->
                        [inner[j] EXCEPT !.groups[it.name] =
                            SubSeq(s, m.end, inner[j].end - 1)] ]
           [] it.t = "opt" -> Matches(it.re, s, m) \o << m >>
           [] it.t = "alt" -> Matches(it.a, s, m) \o Matches(it.b, s, m)
    ELSE
      LET half == Len(re) \div 2
      IN  MatchesAll(SubSeq(re, half + 1, Len(re)), s,
                     Matches(SubSeq(re, 1, half), s, m))
\* The ways re can match after each of the partial matches ms, in order.
MatchesAll(re, s, ms) ==
    IF Len(ms) = 0 THEN << >>
    ELSE IF Len(ms) = 1 THEN Matches(re, s, ms[1])
    ELSE LET half == Len(ms) \div 2
         IN  MatchesAll(re, s, SubSeq(ms, 1, half))
               \o MatchesAll(re, s, SubSeq(ms, half + 1, Len(ms)))

\* rule.regex_obj.match(line): the groupdict has every named group of the
\* expression, None for a group that took no part in the match.
NoMatch == [ok |-> FALSE]
Match(regex, line) ==
    LET ms == Matches(regex, line,
                      [end |-> 1, groups |-> [n \in GroupNames(regex) |-> None]])
    IN  IF Len(ms) = 0 THEN NoMatch
        ELSE [ok |-> TRUE, end |-> ms[1].end, groups |-> ms[1].groups]

(***************************************************************************)
(* Input lines.                                                            *)
(***************************************************************************)
\* 'Gateway of last resort is not set'
LineGateway ==
    <<"G","a","t","e","w","a","y"," ","o","f"," ","l","a","s","t"," ","r","e","s","o",
    "r","t"," ","i","s"," ","n","o","t"," ","s","e","t">>
\* 'Codes: C - connected'
LineCodes ==
    <<"C","o","d","e","s",":"," ","C"," ","-"," ","c","o","n","n","e","c","t","e","d">>
\* ''
LineBlank ==
    <<>>
\* '      10.0.0.0/8 is variably subnetted'
LineSubnetted ==
    <<" "," "," "," "," "," ","1","0",".","0",".","0",".","0","/","8"," ","i","s"," ",
    "v","a","r","i","a","b","l","y"," ","s","u","b","n","e","t","t","e","d">>
\* 'C   10.0.0.0/24 is directly connected, GigabitEthernet0/1'
LineConnMask ==
    <<"C"," "," "," ","1","0",".","0",".","0",".","0","/","2","4"," ","i","s"," ","d",
    "i","r","e","c","t","l","y"," ","c","o","n","n","e","c","t","e","d",","," ","G",
    "i","g","a","b","i","t","E","t","h","e","r","n","e","t","0","/","1">>
\* 'C        10.0.1.0 is directly connected, Vlan1'
LineConnNoMask ==
    <<"C"," "," "," "," "," "," "," "," ","1","0",".","0",".","1",".","0"," ","i","s",
    " ","d","i","r","e","c","t","l","y"," ","c","o","n","n","e","c","t","e","d",",",
    " ","V","l","a","n","1">>
\* 'O     10.1.1.0/24 [110/2] via 10.0.0.2, 00:01:02, Gi0/1'
LineRouteMask ==
    <<"O"," "," "," "," "," ","1","0",".","1",".","1",".","0","/","2","4"," ","[","1",
    "1","0","/","2","]"," ","v","i","a"," ","1","0",".","0",".","0",".","2",","," ",
    "0","0",":","0","1",":","0","2",","," ","G","i","0","/","1">>
\* 'D        10.0.2.0 [90/3] via 10.0.0.3'
LineRouteNoMask ==
    <<"D"," "," "," "," "," "," "," "," ","1","0",".","0",".","2",".","0"," ","[","9",
    "0","/","3","]"," ","v","i","a"," ","1","0",".","0",".","0",".","3">>
\* 'D     10.2.0.0/16 [90/5], 00:01:02, Null0'
LineNullRoute ==
    <<"D"," "," "," "," "," ","1","0",".","2",".","0",".","0","/","1","6"," ","[","9",
    "0","/","5","]",","," ","0","0",":","0","1",":","0","2",","," ","N","u","l","l",
    "0">>
\* 'D     10.3.0.0/16 is a summary, 00:01:02, Null0'
LineSummary ==
    <<"D"," "," "," "," "," ","1","0",".","3",".","0",".","0","/","1","6"," ","i","s",
    " ","a"," ","s","u","m","m","a","r","y",","," ","0","0",":","0","1",":","0","2",
    ","," ","N","u","l","l","0">>
\* 'O     10.4.0.0/24'
LineNetMask ==
    <<"O"," "," "," "," "," ","1","0",".","4",".","0",".","0","/","2","4">>
\* 'S        10.0.5.0'
LineNetOnly ==
    <<"S"," "," "," "," "," "," "," "," ","1","0",".","0",".","5",".","0">>
\* '           [110/2] via 10.0.0.4, 00:01:02, Gi0/2'
LineVia ==
    <<" "," "," "," "," "," "," "," "," "," "," ","[","1","1","0","/","2","]"," ","v",
    "i","a"," ","1","0",".","0",".","0",".","4",","," ","0","0",":","0","1",":","0",
    "2",","," ","G","i","0","/","2">>
\* '      [1/0] via 10.0.0.5'
LineViaShort ==
    <<" "," "," "," "," "," ","[","1","/","0","]"," ","v","i","a"," ","1","0",".","0",
    ".","0",".","5">>
\* 'B     10.5.0.0/16 [20/0] via 10.0.0.9'
LineBgp ==
    <<"B"," "," "," "," "," ","1","0",".","5",".","0",".","0","/","1","6"," ","[","2",
    "0","/","0","]"," ","v","i","a"," ","1","0",".","0",".","0",".","9">>
\* 'C 10.0.6.0/24 is directly connected, Vlan2'
LineOneSpace ==
    <<"C"," ","1","0",".","0",".","6",".","0","/","2","4"," ","i","s"," ","d","i","r",
    "e","c","t","l","y"," ","c","o","n","n","e","c","t","e","d",","," ","V","l","a",
    "n","2">>

(***************************************************************************)
(* Bounds of the model and the inputs it reads.  An input is a few lines   *)
(* of preamble, then possibly the `Gateway' line and a few lines of the    *)
(* routing table, each line ended by a newline.                            *)
(***************************************************************************)
MaxLines == 4

PrePool == { LineCodes, LineBlank, LineConnMask }
BodyPool ==
    { LineBlank, LineSubnetted, LineConnMask, LineConnNoMask, LineRouteMask,
      LineRouteNoMask, LineNullRoute, LineSummary, LineNetMask, LineNetOnly,
      LineVia, LineViaShort, LineBgp, LineOneSpace }
LinePool == PrePool \cup BodyPool \cup { LineGateway }

SeqsUpTo(S, n) == UNION { [1..k -> S] : k \in 0..n }

InputLines ==
    SeqsUpTo(PrePool, MaxLines)
    \cup { pb[1] \o << LineGateway >> \o pb[2] :
             pb \in { x \in SeqsUpTo(PrePool, MaxLines - 1)
                              \X SeqsUpTo(BodyPool, MaxLines - 1) :
                        Len(x[1]) + Len(x[2]) < MaxLines } }

RECURSIVE JoinLines(_)
JoinLines(ls) ==
    IF ls = << >> THEN << >> ELSE Head(ls) \o << NewLine >> \o JoinLines(Tail(ls))

\* '<US><US>10.0.0.0/8 is variably subnetted' (<US>: the unit separator 0x1F)
LineSubnettedUnitSep ==
    <<UnitSep,UnitSep,"1","0",".","0",".","0",".","0","/","8"," ","i","s"," ",
    "v","a","r","i","a","b","l","y"," ","s","u","b","n","e","t","t","e","d">>
\* 'C<US><US> 10.0.1.0 is directly connected, Vlan1' (<US>: the unit separator 0x1F)
LineConnUnitSep ==
    <<"C",UnitSep,UnitSep," ","1","0",".","0",".","1",".","0"," ","i","s"," ",
    "d","i","r","e","c","t","l","y"," ","c","o","n","n","e","c","t","e","d",
    ","," ","V","l","a","n","1">>
\* '<US>[1/0] via 10.0.0.5' (<US>: the unit separator 0x1F)
LineViaUnitSep ==
    <<UnitSep,"[","1","/","0","]"," ","v","i","a"," ","1","0",".","0",".","0",
    ".","5">>

\* Texts whose lines end at other line breaks than the newline, and a text
\* whose last line has no line break; their white space is that of \s.
TextOtherBreaks ==
    LineGateway \o << VerticalTab >> \o LineSubnettedUnitSep \o << "\f" >>
      \o LineConnUnitSep \o << FileSep >>
TextNoLastBreak ==
    LineGateway \o << GroupSep >> \o LineNetOnly \o << RecordSep >>
      \o LineViaUnitSep \o << NewLine >> \o LineConnMask
OtherInputs == { TextOtherBreaks, TextNoLastBreak }

Inputs == { JoinLines(ls) : ls \in InputLines } \cup OtherInputs

(***************************************************************************)
(* The TextFSM object: the current state's name, the value table (each     *)
(* value and, for a Filldown value, the copy its option keeps), the        *)
(* records appended so far, and whether a rule raised an error.            *)
(***************************************************************************)
\* textfsm.TextFSM(fileIn): the template is compiled and the machine reset.
TextFSM ==
    [ cur_state_name |-> "Start",
      value  |-> [n \in NameSet |-> None],
      myvar  |-> [n \in Filldown |-> None],
      result |-> << >>,
      error  |-> FALSE ]

\* _AssignVar for every group of the match's groupdict: the value is set and
\* a Filldown option remembers it.
AssignVars(t, groups) ==
    [ t EXCEPT
        !.value = [n \in NameSet |->
                     IF n \in DOMAIN groups THEN groups[n] ELSE t.value[n]],
        !.myvar = [n \in Filldown |->
                     IF n \in DOMAIN groups THEN groups[n] ELSE t.myvar[n]] ]

\* Mutant: clearing the record leaves every value as it is.
ClearRecordNothing(t) == t

\* Mutant: clearing the record forgets the Filldown copies' values.
ClearRecordAll(t) ==
    [ t EXCEPT !.value = [n \in NameSet |-> None] ]

\* _ClearRecord: every value is unset, and a Filldown value is restored from
\* the copy its option keeps.
ClearRecord(t) ==
    [ t EXCEPT !.value = [n \in NameSet |->
                            IF n \in Filldown THEN t.myvar[n] ELSE None] ]

\* Mutant: Clearall keeps the Filldown values, as Clear does.
ClearAllRecordAsClear(t) ==
    [ t EXCEPT !.value = [n \in NameSet |->
                            IF n \in Filldown THEN t.myvar[n] ELSE None] ]

\* _ClearAllRecord: every value is unset and the Filldown copies are dropped.
ClearAllRecord(t) ==
    [ t EXCEPT !.value = [n \in NameSet |-> None],
               !.myvar = [n \in Filldown |-> None] ]

\* Required.OnSaveRecord raises SkipRecord for a value that is None or empty.
SkipRecord(t) == \E n \in Required : t.value[n] \in { None, EmptyStr }

\* _AppendRecord: a record with an unset Required value is skipped (and the
\* record cleared); a record whose values are all None is not output; else
\* the values, None replaced by the empty string, are appended in
\* declaration order and the record is cleared.
AppendRecord(t) ==
    LET cur_record == [i \in DOMAIN ValueNames |-> t.value[ValueNames[i]]]
    IN  IF SkipRecord(t) THEN ClearRecord(t)
        ELSE IF \A i \in DOMAIN cur_record : cur_record[i] = None THEN t
        ELSE ClearRecord(
               [ t EXCEPT !.result =
                   Append(@, [i \in DOMAIN cur_record |->
                                IF cur_record[i] = None THEN EmptyStr
                                ELSE cur_record[i]]) ])

\* _Operations: the record operator, then the line operator.
Operations(t, rule) ==
    LET recorded ==
          CASE rule.record_op = "Record"   -> AppendRecord(t)
            [] rule.record_op = "Clear"    -> ClearRecord(t)
            [] rule.record_op = "Clearall" -> ClearAllRecord(t)
            [] OTHER -> t
    IN  IF rule.line_op = "Error" THEN [recorded EXCEPT !.error = TRUE]
        ELSE recorded

\* The matches of the lines of the pool against every rule, computed once.
MatchTable ==
    [ st \in DOMAIN States |->
        [ line \in LinePool |->
            [ k \in DOMAIN States[st] |-> Match(States[st][k].regex, line) ] ] ]

\* _CheckRule: the rule's expression against the line.
CheckRule(st, k, line) ==
    IF line \in LinePool THEN MatchTable[st][line][k]
    ELSE Match(States[st][k].regex, line)

\* The loop of _CheckLine over the rules of the current state: the index of
\* the first rule that matches from rule k on, 0 if none does.
RECURSIVE FirstRule(_, _, _)
\* Mutant: the last rule that matches wins.
RECURSIVE LastRule(_, _, _)
LastRule(st, k, line) ==
    IF k > Len(States[st]) THEN 0
    ELSE LET later == LastRule(st, k + 1, line)
         IN  IF later # 0 THEN later
             ELSE IF CheckRule(st, k, line).ok THEN k ELSE 0

FirstRule(st, k, line) ==
    IF k > Len(States[st]) THEN 0
    ELSE IF CheckRule(st, k, line).ok THEN k
    ELSE FirstRule(st, k + 1, line)

\* The rule _CheckLine applies to the line in state st (0: none).
MatchedRule(st, line) == FirstRule(st, 1, line)

\* Mutant: the groups are assigned only when the rule records.
ApplyRuleRecordOnly(t, k, line) ==
    LET st   == t.cur_state_name
        rule == States[st][k]
        kept == IF rule.record_op = "Record"
                THEN AssignVars(t, CheckRule(st, k, line).groups) ELSE t
        done == Operations(kept, rule)
    IN  IF rule.line_op # "Continue" /\ rule.new_state # ""
        THEN [done EXCEPT !.cur_state_name = rule.new_state]
        ELSE done

\* The matched rule applied: the groups are assigned, the operators run and
\* the state changes if the rule names a new one.
ApplyRule(t, k, line) ==
    LET st   == t.cur_state_name
        rule == States[st][k]
        done == Operations(AssignVars(t, CheckRule(st, k, line).groups), rule)
    IN  IF rule.line_op # "Continue" /\ rule.new_state # ""
        THEN [done EXCEPT !.cur_state_name = rule.new_state]
        ELSE done

\* Mutant: a line no rule matches ends the parse.
CheckLineStrict(t, line) ==
    LET k == MatchedRule(t.cur_state_name, line)
    IN  IF k = 0 THEN [t EXCEPT !.cur_state_name = "EOF"] ELSE ApplyRule(t, k, line)

\* _CheckLine: a line no rule matches changes nothing.
CheckLine(t, line) ==
    LET k == MatchedRule(t.cur_state_name, line)
    IN  IF k = 0 THEN t ELSE ApplyRule(t, k, line)

\* str.splitlines(): a line ends at a line break character (a carriage
\* return and the newline after it are one break) or at the end of the
\* text; the breaks are not part of the lines.
\* The places where the lines of the text end: its line breaks, and its end
\* if the last character is no line break.
LineEnds(text) ==
    { i \in { j \in DOMAIN text : text[j] \in LineBreak } :
        ~(text[i] = "\n" /\ i > 1 /\ text[i - 1] = "\r") }
      \cup (IF Len(text) > 0 /\ text[Len(text)] \notin LineBreak
            THEN { Len(text) + 1 } ELSE {})
\* The lines of the text, given the places where they end.
LinesBetween(text, ends) ==
    LET BreakLen(i) ==
            IF i < Len(text) /\ text[i] = "\r" /\ text[i + 1] = "\n" THEN 2 ELSE 1
        EndOf(k)   == CHOOSE p \in ends : Cardinality({ q \in ends : q < p }) = k - 1
        StartOf(k) == IF k = 1 THEN 1 ELSE EndOf(k - 1) + BreakLen(EndOf(k - 1))
    IN  [ k \in 1..Cardinality(ends) |-> SubSeq(text, StartOf(k), EndOf(k) - 1) ]
SplitLines(text) ==
    CHOOSE ls \in { LinesBetween(text, ends) : ends \in { LineEnds(text) } } : TRUE

\* The implicit EOF of ParseText appends a last record unless the template
\* declares an EOF state.
ImplicitEOF(t) ==
    IF t.cur_state_name # "End" /\ "EOF" \notin DOMAIN States
    THEN AppendRecord(t) ELSE t

\* ParseText leaves its loop in the End or EOF state.
Stopped(t) == t.cur_state_name \in { "End", "EOF" }

\* ParseText's loop from the machine t over the lines ls.
RECURSIVE RunLines(_, _)
RunLines(t, ls) ==
    IF ls = << >> \/ Stopped(t) \/ t.error THEN t
    ELSE RunLines(CheckLine(t, Head(ls)), Tail(ls))

\* re_table.ParseText(text) from the machine t: the machine it leaves.
ParseText(t, text) ==
    LET ran == RunLines(t, IF text # << >> THEN SplitLines(text) ELSE << >>)
    IN  IF ran.error THEN ran ELSE ImplicitEOF(ran)

\* Mutant: the next hop is part of the key.
RouteKeyWithHop(eachItem) ==
    << eachItem[1], eachItem[3], eachItem[4], eachItem[7], eachItem[8] >>

\* The key of a record in the summary: protocol, network and mask.
RouteKey(eachItem) == << eachItem[1], eachItem[3], eachItem[4] >>

\* The protocol codes the report counts: connected, EIGRP, local, OSPF, static.
Categories == { "C", "D", "L", "O", "S" }
\* Mutant: a key of any other protocol is counted as a static route.
CountOfOthersAsStatic(routes, c) ==
    Cardinality({ x \in routes :
                    \/ x[1] = << c >>
                    \/ c = "S" /\ \A d \in Categories : x[1] # << d >> })

CountOf(routes, c) == Cardinality({ x \in routes : x[1] = << c >> })

(***************************************************************************)
(* main: ParseText over the lines of the input, the deduplication loop     *)
(* and the report.                                                         *)
(***************************************************************************)
VARIABLES
    inputFile,     \* the text read from the file
    pc,            \* where main is: "read", "call", "parse", "dedup", "done",
                   \* or "error" once a rule has raised
    re_table,      \* the TextFSM object
    lines,         \* ParseText: the lines of the text
    idx,           \* ParseText: the number of lines passed to _CheckLine
    routeInfo,     \* the list ParseText returned
    seen,          \* the number of records the deduplication loop has taken
    uniqueRoutes,  \* the set of keys
    counts,        \* the counts the report prints
    log            \* history, per line passed to _CheckLine: the line, the
                   \* machine before it, the rule applied (0: none) and the
                   \* index of the record appended (0: none)

vars ==
    << inputFile, pc, re_table, lines, idx, routeInfo, seen, uniqueRoutes,
       counts, log >>

NoCounts == [c \in Categories |-> -1]

Init ==
    /\ inputFile = << >>
    /\ pc = "read"
    /\ re_table = TextFSM
    /\ lines = << >>
    /\ idx = 0
    /\ routeInfo = << >>
    /\ seen = 0
    /\ uniqueRoutes = {}
    /\ counts = NoCounts
    /\ log = << >>

\* The input file is read.
ReadInput ==
    /\ pc = "read"
    /\ inputFile' \in Inputs
    /\ pc' = "call"
    /\ UNCHANGED << re_table, lines, idx, routeInfo, seen, uniqueRoutes, counts,
                    log >>

\* ParseText is called: the text is split into lines (an empty text has none).
ParseTextBegin ==
    /\ pc = "call"
    /\ lines' = IF inputFile # << >> THEN SplitLines(inputFile) ELSE << >>
    /\ pc' = "parse"
    /\ UNCHANGED << inputFile, re_table, idx, routeInfo, seen, uniqueRoutes,
                    counts, log >>

\* ParseText's loop goes on: a line is left and the state is not End or EOF.
MoreLines == idx < Len(lines) /\ ~Stopped(re_table)

\* One iteration of ParseText's loop: the next line goes through _CheckLine.
\* An Error rule raises, which ends the program.
ParseLine ==
    /\ pc = "parse"
    /\ MoreLines
    /\ LET line == lines[idx + 1]
           t    == CheckLine(re_table, line)
       IN  /\ re_table' = t
           /\ idx' = idx + 1
           /\ log' = Append(log,
                       [ line   |-> line,
                         before |-> re_table,
                         rule   |-> MatchedRule(re_table.cur_state_name, line),
                         rec    |-> IF Len(t.result) > Len(re_table.result)
                                    THEN Len(t.result) ELSE 0 ])
           /\ pc' = IF t.error THEN "error" ELSE "parse"
    /\ UNCHANGED << inputFile, lines, routeInfo, seen, uniqueRoutes, counts >>

\* ParseText's loop has ended (no line left, or the End or EOF state): the
\* implicit EOF, and the result list is returned to main.
ParseTextEnd ==
    /\ pc = "parse"
    /\ ~MoreLines
    /\ re_table' = ImplicitEOF(re_table)
    /\ routeInfo' = re_table'.result
    /\ pc' = "dedup"
    /\ UNCHANGED << inputFile, lines, idx, seen, uniqueRoutes, counts, log >>

\* One iteration of the loop over routeInfo: the record's key joins the set.
AddRoute ==
    /\ pc = "dedup"
    /\ seen < Len(routeInfo)
    /\ uniqueRoutes' = uniqueRoutes \cup { RouteKey(routeInfo[seen + 1]) }
    /\ seen' = seen + 1
    /\ UNCHANGED << inputFile, pc, re_table, lines, idx, routeInfo, counts, log >>

\* The report: one count per category over the set of keys.
Report ==
    /\ pc = "dedup"
    /\ seen = Len(routeInfo)
    /\ counts' = [c \in Categories |-> CountOf(uniqueRoutes, c)]
    /\ pc' = "done"
    /\ UNCHANGED << inputFile, re_table, lines, idx, routeInfo, seen,
                    uniqueRoutes, log >>

Next == ReadInput \/ ParseTextBegin \/ ParseLine \/ ParseTextEnd \/ AddRoute \/ Report

Spec == Init /\ [][Next]_vars

TypeOK ==
    /\ pc \in { "read", "call", "parse", "dedup", "done", "error" }
    /\ idx \in 0..Len(lines)
    /\ seen \in 0..Len(routeInfo)
    /\ re_table.cur_state_name \in DOMAIN States
    /\ Len(log) = idx

(***************************************************************************)
(* The history of a run.                                                   *)
(***************************************************************************)
\* The machine after the i-th line (after 0 lines: as constructed).
After(i) == IF i < Len(log) THEN log[i + 1].before ELSE re_table
\* The state in which the i-th line was read, and the rule applied to it.
StateAt(i) == log[i].before.cur_state_name
Applied(i) == States[StateAt(i)][log[i].rule]
\* The operator of the rule applied to the i-th line ("": no rule or none).
RecordOp(i) == IF log[i].rule = 0 THEN "" ELSE Applied(i).record_op
LineOp(i) == IF log[i].rule = 0 THEN "" ELSE Applied(i).line_op
\* The groups the i-th line's match captured.
Groups(i) == CheckRule(StateAt(i), log[i].rule, log[i].line).groups
Captures(i, v) == log[i].rule # 0 /\ v \in DOMAIN Groups(i)
\* The column of value v in a record.
Column(v) == CHOOSE c \in DOMAIN ValueNames : ValueNames[c] = v
Unset == { None, EmptyStr }
\* main has ended: the history is that of a whole run.
RunOver == pc = "done"

(***************************************************************************)
(* The claims.                                                             *)
(***************************************************************************)
\* The NETWORK value when the i-th line's operator runs: the one the line
\* captured, else the one in the table.
NetworkAtRecord(i) ==
    IF Captures(i, "NETWORK") THEN Groups(i)["NETWORK"]
    ELSE log[i].before.value["NETWORK"]
RecordWithoutNetwork(i) == RecordOp(i) = "Record" /\ NetworkAtRecord(i) \in Unset

\* C1: whenever a rule with the Record action matches while the Required
\* value NETWORK is unset, no record is emitted and no error is raised; so
\* every record produced has a non-empty NETWORK field.
C1_RequiredNetwork ==
    /\ pc # "error"
    /\ RunOver =>
         /\ \A i \in DOMAIN log :
              RecordWithoutNetwork(i) =>
                /\ log[i].rec = 0
                /\ After(i).result = log[i].before.result
                /\ ~After(i).error
         /\ \A r \in DOMAIN routeInfo :
              routeInfo[r][Column("NETWORK")] \notin Unset
\* A finished run in which a Record rule matched with NETWORK unset, and
\* which produced a record from another line.
C1_Witness ==
    /\ pc = "done"
    /\ \E i \in DOMAIN log : RecordWithoutNetwork(i)
    /\ Len(routeInfo) >= 1

\* No line from i+1 to j recaptures v or clears all values.
Undisturbed(v, i, j) ==
    \A k \in (i + 1)..j : ~Captures(k, v) /\ RecordOp(k) # "Clearall"

\* C2: a Filldown value, once captured, stays in the table and appears
\* unchanged in every later record, across Record and Clear actions, until a
\* Clearall resets it or a later match recaptures it.
C2_FilldownPersists ==
    RunOver =>
    \A v \in Filldown : \A i \in DOMAIN log : \A j \in DOMAIN log :
        (i < j /\ After(i).value[v] # None /\ Undisturbed(v, i, j)) =>
          /\ After(j).value[v] = After(i).value[v]
          /\ log[j].rec # 0 =>
               After(j).result[log[j].rec][Column(v)] = After(i).value[v]
\* A mask captured before a Clear action and a Record action appears in a
\* record emitted after both.
C2_Witness ==
    \E i \in DOMAIN log : \E k \in DOMAIN log : \E j \in DOMAIN log :
        /\ i < k /\ k < j
        /\ Captures(i, "MASK") /\ RecordOp(i) = "Record" /\ log[i].rec # 0
        /\ RecordOp(k) = "Clear" /\ ~Captures(k, "PROTOCOL")
        /\ Undisturbed("PROTOCOL", i, j)
        /\ log[j].rec # 0
        /\ re_table.result[log[j].rec][Column("PROTOCOL")]
             = re_table.result[log[i].rec][Column("PROTOCOL")]

\* The lines with line u inserted after the first p of them.
InsertLine(ls, p, u) == SubSeq(ls, 1, p) \o << u >> \o SubSeq(ls, p + 1, Len(ls))
\* No rule of state st matches line u.
Unmatched(st, u) == \A k \in DOMAIN States[st] : ~CheckRule(st, k, u).ok

\* C3: a line that matches no rule of the current state leaves the machine
\* as it is (same state, same value table, same records), and the records of
\* finished run are those of the run on the input with such a line (a line
\* of the preamble: a legend, a blank line, a route) inserted at any position.
C3_UnmatchedLineSkipped ==
    RunOver =>
      /\ \A i \in DOMAIN log : log[i].rule = 0 => After(i) = log[i].before
      /\ \A p \in 0..Len(lines) : \A u \in LinePool :
            Unmatched(After(p).cur_state_name, u) =>
               CheckLine(After(p), u) = After(p)
      /\ \A p \in 0..Len(lines) : \A u \in PrePool :
            Unmatched(After(p).cur_state_name, u) =>
               LET ran == RunLines(TextFSM, InsertLine(lines, p, u))
               IN  /\ ran.result = routeInfo
                   /\ ran.cur_state_name = re_table.cur_state_name
                   /\ ran.value = re_table.value
\* A finished run that produced a record and in which a line matched no rule.
C3_Witness ==
    /\ pc = "done"
    /\ Len(routeInfo) >= 1
    /\ \E i \in DOMAIN log : log[i].rule = 0 /\ Unmatched(StateAt(i), log[i].line)

\* The rules of the i-th line's state that match the line.
Matching(i) ==
    { k \in DOMAIN States[StateAt(i)] : CheckRule(StateAt(i), k, log[i].line).ok }
Earliest(S) == CHOOSE k \in S : \A l \in S : k <= l

\* C4: the rule applied to a line is the earliest declared rule of the
\* current state that matches it, and the machine after the line is the one
\* that rule's captures, action and transition give; a later rule that also
\* matches has no effect: a Record rule records although the Clearall rule
\* matches too, and a Next rule keeps what it captured.
C4_FirstMatchWins ==
    RunOver =>
    \A i \in DOMAIN log :
        IF Matching(i) = {} THEN log[i].rule = 0
        ELSE LET first == Earliest(Matching(i))
             IN  /\ log[i].rule = first
                 /\ After(i) = ApplyRule(log[i].before, first, log[i].line)
                 /\ (States[StateAt(i)][first].record_op = "Record"
                       /\ Captures(i, "NETWORK")) => log[i].rec # 0
                 /\ States[StateAt(i)][first].line_op = "Next" =>
                       After(i).value["NETWORK"] = Groups(i)["NETWORK"]
\* A line that a Record rule, a Next rule and the Clearall rule all match
\* produced a record.
C4_Witness ==
    \E i \in DOMAIN log :
        /\ log[i].rec # 0
        /\ \E k \in Matching(i) : States[StateAt(i)][k].line_op = "Next"
        /\ \E k \in Matching(i) : States[StateAt(i)][k].record_op = "Clearall"

\* The distinct (PROTOCOL, NETWORK, MASK) keys of the records of protocol c.
KeysOf(records, c) ==
    { << records[i][Column("PROTOCOL")], records[i][Column("NETWORK")],
         records[i][Column("MASK")] >> :
        i \in { r \in DOMAIN records : records[r][Column("PROTOCOL")] = << c >> } }

\* C5: each count of the report is the number of distinct (PROTOCOL,
\* NETWORK, MASK) keys among the records of that protocol, not the number of
\* records.
C5_CountsDistinctKeys ==
    pc = "done" =>
      \A c \in Categories : counts[c] = Cardinality(KeysOf(re_table.result, c))
\* Two records with the same key and different next hops count once.
C5_Witness ==
    /\ pc = "done"
    /\ \E i \in DOMAIN routeInfo : \E j \in DOMAIN routeInfo :
         /\ i # j
         /\ RouteKey(routeInfo[i]) = RouteKey(routeInfo[j])
         /\ routeInfo[i][Column("NEXTHOP_IP")] # routeInfo[j][Column("NEXTHOP_IP")]
         /\ \E c \in Categories :
              /\ routeInfo[i][Column("PROTOCOL")] = << c >>
              /\ counts[c] = 1

\* The i-th line is an "is subnetted" marker (its rule captures a mask and no
\* network); it is a route line that carries a network and no mask and whose
\* rule records.
IsMarker(i) ==
    StateAt(i) = "Routes" /\ Captures(i, "MASK") /\ ~Captures(i, "NETWORK")
IsMasklessRoute(i) ==
    /\ RecordOp(i) = "Record"
    /\ Captures(i, "NETWORK")
    /\ ~Captures(i, "MASK")

\* C6: the Clear of the "is subnetted" marker rule keeps the MASK the rule
\* captured, and each later route line with a network and no mask produces a
\* record with that MASK, as long as no line in between recaptures MASK or
\* clears all values; so does any other record produced meanwhile.
C6_MaskInherited ==
    RunOver =>
    \A i \in DOMAIN log :
        IsMarker(i) =>
          /\ After(i).value["MASK"] = Groups(i)["MASK"]
          /\ \A j \in DOMAIN log :
               (i < j /\ Undisturbed("MASK", i, j)) =>
                 /\ IsMasklessRoute(j) => log[j].rec # 0
                 /\ log[j].rec # 0 =>
                      routeInfo[log[j].rec][Column("MASK")] = Groups(i)["MASK"]
\* A marker line, another line, then a route line without a mask whose
\* record has the marker's mask.
C6_Witness ==
    \E i \in DOMAIN log : \E j \in DOMAIN log :
        /\ IsMarker(i) /\ i + 1 < j /\ Undisturbed("MASK", i, j)
        /\ IsMasklessRoute(j) /\ log[j].rec # 0
        /\ re_table.result[log[j].rec][Column("MASK")] = Groups(i)["MASK"]
        /\ Groups(i)["MASK"] = << "8" >>

\* The record of `C   10.0.0.0/24 is directly connected, GigabitEthernet0/1'.
ConnMaskRecord ==
    << << "C" >>, EmptyStr, << "1","0",".","0",".","0",".","0" >>, << "2","4" >>,
       EmptyStr, EmptyStr, EmptyStr,
       << "G","i","g","a","b","i","t","E","t","h","e","r","n","e","t","0","/","1" >>,
       EmptyStr >>
ConnMaskInEmptyRoutes(i) ==
    /\ log[i].line = LineConnMask
    /\ StateAt(i) = "Routes"
    /\ log[i].before.value = [n \in NameSet |-> None]

\* C7: in state Routes with an empty value table, the line
\* `C   10.0.0.0/24 is directly connected, GigabitEthernet0/1' produces
\* exactly one record: PROTOCOL C, NETWORK 10.0.0.0, MASK 24, NEXTHOP_IF
\* GigabitEthernet0/1 and every other field empty.
C7_ConnectedRouteRecord ==
    RunOver =>
    \A i \in DOMAIN log :
        ConnMaskInEmptyRoutes(i) =>
          /\ log[i].rec = Len(log[i].before.result) + 1
          /\ Len(After(i).result) = Len(log[i].before.result) + 1
          /\ routeInfo[log[i].rec] = ConnMaskRecord
C7_Witness ==
    /\ pc = "done"
    /\ \E i \in DOMAIN log : ConnMaskInEmptyRoutes(i)
    /\ routeInfo = << ConnMaskRecord >>

\* The lines that appended a record.
Recording == { i \in DOMAIN log : log[i].rec # 0 }

\* C8: a record is emitted only by a line that a Record rule matches, at
\* most one per line, and the end of the input emits none: the list returned
\* has one record per recording line, so what a trailing Next rule captured
\* is dropped.
C8_RecordsOnlyFromRecordRules ==
    RunOver =>
      /\ \A i \in DOMAIN log :
           /\ Len(After(i).result) - Len(log[i].before.result) \in { 0, 1 }
           /\ Len(After(i).result) > Len(log[i].before.result) =>
                RecordOp(i) = "Record" /\ log[i].rec = Len(After(i).result)
           /\ SubSeq(After(i).result, 1, Len(log[i].before.result))
                = log[i].before.result
      /\ Len(routeInfo) = Cardinality(Recording)
      /\ routeInfo = re_table.result
\* A finished run whose last line matched a Next rule: the network it
\* captured is in the value table and in no record.
C8_Witness ==
    /\ pc = "done"
    /\ Len(log) >= 2
    /\ LineOp(Len(log)) = "Next"
    /\ re_table.value["NETWORK"] # None
    /\ \A r \in DOMAIN routeInfo :
         routeInfo[r][Column("NETWORK")] # re_table.value["NETWORK"]

\* No error; the lines ParseText starts with are the lines of the text, the
\* lines passed to _CheckLine so far are the first of them, in order, and
\* ParseText returns only when all of them are passed.
ConsumedInOrder ==
    /\ pc # "error" /\ ~re_table.error
    /\ (pc = "parse" /\ idx = 0) => lines = SplitLines(inputFile)
    /\ Len(log) = idx /\ idx <= Len(lines)
    /\ \A i \in DOMAIN log : log[i].line = lines[i]
    /\ pc \in { "dedup", "done" } => idx = Len(lines)

\* The order of main's phases.
Phase ==
    [ read |-> 0, call |-> 1, parse |-> 2, dedup |-> 3, done |-> 4, error |-> 4 ]
\* A step moves main to a later phase, or passes exactly the next line to the
\* machine, or takes exactly the next record; the text and its lines do not
\* change once split.
Advances ==
    /\ pc \notin { "read", "call" } => lines' = lines /\ inputFile' = inputFile
    /\ \/ Phase[pc'] > Phase[pc]
       \/ /\ pc' = pc /\ pc = "parse"
          /\ idx' = idx + 1 /\ idx' <= Len(lines)
          /\ log' = Append(log, log'[idx'])
       \/ /\ pc' = pc /\ pc = "dedup"
          /\ seen' = seen + 1 /\ seen' <= Len(routeInfo) /\ routeInfo' = routeInfo

\* The run is over or main has a step to take (while ParseText's loop goes
\* on, the step that passes the next line to the machine).
NotStuck ==
    \/ pc = "done"
    \/ pc = "parse" /\ MoreLines
    \/ ENABLED (ReadInput \/ ParseTextBegin \/ ParseTextEnd \/ AddRoute \/ Report)

\* C9: for every input, whatever its lines contain, the run passes each line
\* once and in order to the machine and raises no error; every step takes
\* the run nearer its end and the run stops only when it is over (the lines
\* exhausted, the records counted), so it ends.
C9_Terminates ==
    [][ Advances /\ ConsumedInOrder' /\ NotStuck' ]_vars
\* A finished run over three lines or more, none of which matched a rule.
C9_Witness ==
    /\ pc = "done"
    /\ Len(lines) >= 3 /\ idx = Len(lines)
    /\ \A i \in DOMAIN log : log[i].rule = 0

\* C10: each record is handed to the caller as soon as its Record action
\* fires: a record the machine has appended and the deduplication loop has
\* not taken can be taken by the loop at once, before any later line is
\* processed.  main takes the first record only after ParseText has
\* returned, so this fails while lines are being processed.
C10_Streamed == Len(re_table.result) > seen => ENABLED AddRoute

\* The line begins with `Gateway'.
BeginsWithGateway(line) ==
    Len(line) >= 7 /\ SubSeq(line, 1, 7) = << "G","a","t","e","w","a","y" >>
\* None of the first i lines begins with `Gateway'.
NoGatewayUpTo(i) == \A j \in 1..i : ~BeginsWithGateway(log[j].line)
\* The line looks like a route: a rule of Routes would record it.
LooksLikeRoute(line) ==
    \E k \in DOMAIN States["Routes"] :
        /\ States["Routes"][k].record_op = "Record"
        /\ CheckRule("Routes", k, line).ok

\* C12: the run starts in state Start, whose only rule is the transition to
\* Routes on a line that begins with `Gateway' and captures nothing; up to
\* the first such line no value is captured and no record is emitted, even
\* from a line that looks like a route, and an input without such a line
\* yields no record and five counts of 0.
C12_NothingBeforeGateway ==
    /\ pc \in { "read", "call" } => re_table.cur_state_name = "Start"
    /\ Len(States["Start"]) = 1
    /\ GroupNames(States["Start"][1].regex) = {}
    /\ States["Start"][1].record_op = ""
    /\ States["Start"][1].new_state = "Routes"
    /\ RunOver =>
         /\ After(0) = TextFSM
         /\ \A i \in DOMAIN log :
              /\ NoGatewayUpTo(i) =>
                   /\ After(i) = TextFSM
                   /\ log[i].rule = 0 /\ log[i].rec = 0
              /\ (NoGatewayUpTo(i - 1) /\ BeginsWithGateway(log[i].line)) =>
                   /\ log[i].rule = 1 /\ log[i].rec = 0
                   /\ After(i) = [ TextFSM EXCEPT !.cur_state_name = "Routes" ]
         /\ NoGatewayUpTo(Len(log)) =>
              /\ routeInfo = << >>
              /\ \A c \in Categories : counts[c] = 0
\* A finished run that produced a record, in which a line that looks like a
\* route came before the `Gateway' line.
C12_Witness ==
    /\ pc = "done"
    /\ Len(routeInfo) >= 1
    /\ \E i \in DOMAIN log : \E j \in DOMAIN log :
         /\ i < j
         /\ LooksLikeRoute(log[i].line) /\ NoGatewayUpTo(i)
         /\ BeginsWithGateway(log[j].line)
\* A finished run over route lines and no `Gateway' line.
C12_NoGatewayWitness ==
    /\ pc = "done"
    /\ Len(log) >= 2
    /\ NoGatewayUpTo(Len(log))
    /\ \A i \in DOMAIN log : LooksLikeRoute(log[i].line)

\* The values without the Filldown option.
NotFilldown == NameSet \ Filldown
\* What the i-th line's match gives value v: what it captured, if anything.
CapturedHere(i, v) ==
    IF Captures(i, v) /\ Groups(i)[v] # None THEN Groups(i)[v] ELSE EmptyStr
\* Field v of the record the i-th line appended.
Field(i, v) == routeInfo[log[i].rec][Column(v)]

\* C13: after every Record action, whether it emitted a record or not, the
\* values DISTANCE, METRIC, NEXTHOP_IP, NEXTHOP_IF and UPTIME are unset; so
\* these fields of a record hold what the recording line itself captured, and
\* nothing captured before the previous Record action.
C13_RecordResetsNonFilldown ==
    /\ NotFilldown = { "DISTANCE", "METRIC", "NEXTHOP_IP", "NEXTHOP_IF", "UPTIME" }
    /\ RunOver =>
         /\ \A i \in DOMAIN log :
              RecordOp(i) = "Record" =>
                \A v \in NotFilldown : After(i).value[v] = None
         /\ \A i \in Recording :
              \A v \in NotFilldown : Field(i, v) = CapturedHere(i, v)
\* Three records in a row: a route with a distance and an interface, then a
\* connected route, whose record has no distance, then a route without an
\* interface, whose record has none.
C13_Witness ==
    /\ pc = "done"
    /\ \E i \in Recording :
         /\ i + 2 \in Recording /\ i + 1 \in Recording
         /\ Field(i, "DISTANCE") # EmptyStr /\ Field(i, "NEXTHOP_IF") # EmptyStr
         /\ Field(i + 1, "DISTANCE") = EmptyStr
         /\ Field(i + 1, "NEXTHOP_IF") # EmptyStr
         /\ Field(i + 2, "NEXTHOP_IF") = EmptyStr
         /\ Field(i + 2, "DISTANCE") # EmptyStr

\* What the lines from i+1 to j captured for value v.
CapturedBetween(i, j, v) == { CapturedHere(k, v) : k \in (i + 1)..j }

\* C14: after a Clearall action every value is unset, the Filldown values
\* PROTOCOL, TYPE, NETWORK and MASK and their kept copies included, and the
\* action emits no record; each field of a record emitted later is empty or
\* was captured by a line after the Clearall.
C14_ClearallResetsAll ==
    /\ Filldown = { "PROTOCOL", "TYPE", "NETWORK", "MASK" }
    /\ RunOver =>
         \A i \in DOMAIN log :
            RecordOp(i) = "Clearall" =>
              /\ After(i).value = [n \in NameSet |-> None]
              /\ After(i).myvar = [n \in Filldown |-> None]
              /\ log[i].rec = 0
              /\ After(i).result = log[i].before.result
              /\ \A j \in Recording :
                   j > i =>
                     \A v \in NameSet :
                        Field(j, v) \in { EmptyStr } \cup CapturedBetween(i, j, v)
\* A mask and a network captured before a blank line, and after the blank
\* line a record with another network and no mask.
C14_Witness ==
    /\ pc = "done"
    /\ \E i \in DOMAIN log : \E j \in Recording :
         /\ i < j
         /\ log[i].line = LineBlank /\ RecordOp(i) = "Clearall"
         /\ log[i].before.value["MASK"] # None
         /\ log[i].before.value["NETWORK"] # None
         /\ Field(j, "MASK") = EmptyStr
         /\ Field(j, "NETWORK") # log[i].before.value["NETWORK"]

\* The i-th line carries only the network (a Next rule matched it); the
\* i-th line is a continuation line (a Record rule that captures no network
\* matched it).
IsNetworkLine(i) == LineOp(i) = "Next" /\ Captures(i, "NETWORK")
IsContinuation(i) == RecordOp(i) = "Record" /\ ~Captures(i, "NETWORK")

\* C15: what a matching rule captures is stored whatever the rule's action:
\* after a Next rule or a Clear rule the value table holds it, a Record rule
\* puts it in the record; so PROTOCOL, TYPE, NETWORK (and MASK, if the line
\* has one) of a line that carries only the network are in the record that
\* the continuation line after it emits.
C15_CapturesStored ==
    RunOver =>
      /\ \A i \in DOMAIN log : \A v \in NameSet :
           Captures(i, v) =>
             /\ RecordOp(i) \in { "", "Clear" } => After(i).value[v] = Groups(i)[v]
             /\ (RecordOp(i) = "Record" /\ log[i].rec # 0) =>
                  Field(i, v) = CapturedHere(i, v)
      /\ \A i \in DOMAIN log :
           (IsNetworkLine(i) /\ i < Len(log) /\ IsContinuation(i + 1)) =>
             /\ log[i + 1].rec # 0
             /\ \A v \in { "PROTOCOL", "TYPE", "NETWORK", "MASK" } :
                  Captures(i, v) => Field(i + 1, v) = Groups(i)[v]
\* A line with a network and a mask, then a continuation line whose record
\* has the protocol, the network and the mask of the first.
C15_Witness ==
    /\ pc = "done"
    /\ \E i \in DOMAIN log :
         /\ IsNetworkLine(i) /\ Captures(i, "MASK")
         /\ i < Len(log) /\ IsContinuation(i + 1) /\ log[i + 1].rec # 0
         /\ Field(i + 1, "PROTOCOL") = << "O" >>
         /\ Field(i + 1, "NETWORK") = Groups(i)["NETWORK"]
         /\ Field(i + 1, "MASK") = << "2", "4" >>
         /\ Field(i + 1, "NEXTHOP_IP") # EmptyStr

\* The declaration order of lines 67 to 75.
DeclarationOrder ==
    << "PROTOCOL", "TYPE", "NETWORK", "MASK", "DISTANCE", "METRIC",
       "NEXTHOP_IP", "NEXTHOP_IF", "UPTIME" >>
\* Value v when the i-th line's Record operator runs (unset: empty).
ValueAtRecord(i, v) ==
    LET val == AssignVars(log[i].before, Groups(i)).value[v]
    IN  IF val = None THEN EmptyStr ELSE val
\* The last rule of Routes.
LastOfRoutes == Len(States["Routes"])
\* The text is, as a whole, a match of the pattern of value v.
WholeMatch(v, text) ==
    LET m == Match(ValuePattern[v], text)
    IN  m.ok /\ m.end = Len(text) + 1
\* The texts the rules capture from the lines of the pool, and for each
\* value whether each of them is a match of its pattern, computed once.
CapturedTexts ==
    UNION { { MatchTable[x[1]][x[2]][x[3]].groups[n] :
                n \in DOMAIN MatchTable[x[1]][x[2]][x[3]].groups } :
            x \in { y \in (DOMAIN States) \X LinePool \X (1..LastOfRoutes) :
                      /\ y[3] \in DOMAIN States[y[1]]
                      /\ MatchTable[y[1]][y[2]][y[3]].ok } }
WholeMatchTable ==
    [ v \in NameSet |-> [ text \in CapturedTexts \ { None } |-> WholeMatch(v, text) ] ]
\* The text is empty or is, as a whole, a match of the pattern of value v.
FitsPattern(v, text) ==
    \/ text = EmptyStr
    \/ IF text \in CapturedTexts \ { None } THEN WholeMatchTable[v][text]
       ELSE WholeMatch(v, text)

\* C16: every record has exactly nine fields, the values in declaration
\* order (PROTOCOL, TYPE, NETWORK, MASK, DISTANCE, METRIC, NEXTHOP_IP,
\* NEXTHOP_IF, UPTIME); so the fields at indices 0, 2 and 3 (here 1, 3 and
\* 4), which form the key, are PROTOCOL, NETWORK and MASK.
C16_NineFieldsInOrder ==
    RunOver =>
      /\ \A i \in Recording :
           LET rec == routeInfo[log[i].rec]
           IN  /\ Len(rec) = 9
               /\ \A c \in 1..9 :
                    /\ rec[c] = ValueAtRecord(i, DeclarationOrder[c])
                    /\ FitsPattern(DeclarationOrder[c], rec[c])
               /\ RouteKey(rec) = << ValueAtRecord(i, "PROTOCOL"),
                                     ValueAtRecord(i, "NETWORK"),
                                     ValueAtRecord(i, "MASK") >>
      /\ uniqueRoutes =
           { << ValueAtRecord(i, "PROTOCOL"), ValueAtRecord(i, "NETWORK"),
                ValueAtRecord(i, "MASK") >> : i \in Recording }
\* A record with a protocol, a network, a mask, a distance, a metric, a next
\* hop, an interface and an uptime, and its key in the set.
C16_Witness ==
    /\ pc = "done"
    /\ \E r \in DOMAIN routeInfo :
         /\ \A c \in (1..9) \ { 2 } : routeInfo[r][c] # EmptyStr
         /\ routeInfo[r][1] = << "O" >>
         /\ routeInfo[r][4] = << "2", "4" >>
         /\ << << "O" >>, routeInfo[r][3], << "2", "4" >> >> \in uniqueRoutes

\* An earlier rule of Routes than the last matches u.
Recognized(u) ==
    \E k \in 1..(LastOfRoutes - 1) : CheckRule("Routes", k, u).ok
\* The line is blank: nothing but white space.
IsBlank(u) == \A c \in DOMAIN u : u[c] \in Space
\* The lines without the p-th.
RemoveLine(ls, p) == SubSeq(ls, 1, p - 1) \o SubSeq(ls, p + 1, Len(ls))
\* The i-th line is a marker, the next is not blank and no earlier rule of
\* Routes matches it, and the one after is a route with a network and no
\* mask.
UnrecognizedAfterMarker(i) ==
    /\ i + 2 <= Len(log)
    /\ IsMarker(i)
    /\ ~IsBlank(log[i + 1].line) /\ ~Recognized(log[i + 1].line)
    /\ Captures(i + 2, "NETWORK") /\ ~Captures(i + 2, "MASK")

\* C17: in state Routes no line is unmatched: the last of the twelve rules
\* matches every line, so a line that none of the eleven earlier rules
\* matches, blank or not, triggers Clearall and resets the Filldown values.
\* Such a line, not blank, between a marker and a route without a mask
\* changes the records that follow: without it the route's record has the
\* marker's mask, with it the record has none.
C17_RoutesMatchesEveryLine ==
    /\ LastOfRoutes = 12
    /\ RunOver =>
         /\ \A i \in DOMAIN log :
              StateAt(i) = "Routes" =>
                /\ CheckRule("Routes", LastOfRoutes, log[i].line).ok
                /\ log[i].rule # 0
                /\ ~Recognized(log[i].line) =>
                     /\ log[i].rule = LastOfRoutes
                     /\ RecordOp(i) = "Clearall"
                     /\ \A v \in Filldown :
                          After(i).value[v] = None /\ After(i).myvar[v] = None
         /\ \A i \in DOMAIN log :
              UnrecognizedAfterMarker(i) =>
                /\ After(i + 1).value["MASK"] = None
                /\ \A j \in Recording :
                     (j >= i + 2 /\ Undisturbed("MASK", i + 1, j)) =>
                       /\ Field(j, "MASK") = EmptyStr
                       /\ LET without ==
                                RunLines(TextFSM, RemoveLine(lines, i + 1)).result
                          IN  /\ without # routeInfo
                              /\ without[log[j].rec][Column("MASK")]
                                   = Groups(i)["MASK"]
\* A marker, a line that is not blank and that no earlier rule matches, and
\* a route without a mask, whose record has no mask.
C17_Witness ==
    /\ pc = "done"
    /\ \E i \in DOMAIN log :
         /\ UnrecognizedAfterMarker(i)
         /\ log[i + 2].rec # 0
         /\ Field(i + 2, "MASK") = EmptyStr
         /\ Groups(i)["MASK"] = << "8" >>

\* The target states the rules of state st name.
Targets(st) ==
    { States[st][k].new_state : k \in DOMAIN States[st] } \ { "" }

\* C18: the current state is always Start or Routes, and once the machine
\* has entered Routes it stays there for the rest of the input: no rule of
\* Routes names a target state, and no rule goes to EOF or back to Start.
C18_StartThenRoutes ==
    /\ RunOver => Targets("Routes") = {} /\ Targets("Start") = { "Routes" }
    /\ re_table.cur_state_name \in { "Start", "Routes" }
    /\ ~Stopped(re_table)
    /\ \A i \in DOMAIN log :
         /\ StateAt(i) \in { "Start", "Routes" }
         /\ StateAt(i) = "Routes" =>
              \A j \in i..Len(log) : After(j).cur_state_name = "Routes"
\* A finished run that left Start at its second line and read two more
\* lines, a blank one among them, in Routes.
C18_Witness ==
    /\ pc = "done"
    /\ Len(log) >= 4
    /\ StateAt(1) = "Start" /\ StateAt(2) = "Start" /\ StateAt(3) = "Routes"
    /\ \E i \in 3..Len(log) : log[i].line = LineBlank
    /\ re_table.cur_state_name = "Routes"

\* The sum of the five counts the report prints.
PrintedSum ==
    counts["C"] + counts["D"] + counts["L"] + counts["O"] + counts["S"]
\* The protocols of the records, and the keys of the records.
Protocols == { routeInfo[r][1] : r \in DOMAIN routeInfo }
Keys == { << routeInfo[r][1], routeInfo[r][3], routeInfo[r][4] >> :
            r \in DOMAIN routeInfo }
Printed == { << "C" >>, << "D" >>, << "L" >>, << "O" >>, << "S" >> }

\* C19: the sum of the five printed counts is at most the number of
\* distinct (PROTOCOL, NETWORK, MASK) keys, which is at most the number of
\* records; a record whose PROTOCOL is none of C, D, L, O, S (B, say) is in
\* no printed count: the sum is the number of keys with one of the five.
C19_CountsBounded ==
    pc = "done" =>
      /\ DOMAIN counts = { "C", "D", "L", "O", "S" }
      /\ uniqueRoutes = Keys
      /\ PrintedSum <= Cardinality(Keys)
      /\ Cardinality(Keys) <= Len(routeInfo)
      /\ PrintedSum = Cardinality({ k \in Keys : k[1] \in Printed })
      /\ Protocols \cap Printed = {} => PrintedSum = 0
\* Three records, two of them with the same key and one of protocol B: two
\* keys and a sum of one.
C19_Witness ==
    /\ pc = "done"
    /\ Len(routeInfo) = 3
    /\ Cardinality(Keys) = 2
    /\ PrintedSum = 1
    /\ << "B" >> \in Protocols

\* The places of the continuation rule and of the load-balanced rule among
\* the rules of Routes.
LoadBalancedPlace ==
    CHOOSE k \in DOMAIN States["Routes"] : States["Routes"][k] = RuleLoadBalanced
ViaPlace == LoadBalancedPlace - 1
\* The load-balanced rule matches the line.
LoadBalancedMatches(u) == CheckRule("Routes", LoadBalancedPlace, u).ok

\* C20: the load-balanced rule, the last Record rule of Routes, is never the
\* rule applied to a line: the rule declared just before it is the same
\* expression followed by optional groups only, so it matches every line
\* the load-balanced rule matches, and wins as the earlier of the two.
C20_LoadBalancedShadowed ==
    RunOver =>
      /\ States["Routes"][LoadBalancedPlace] = RuleLoadBalanced
      /\ States["Routes"][ViaPlace] = RuleVia
      /\ \A k \in DOMAIN States["Routes"] :
           (k > LoadBalancedPlace) => States["Routes"][k].record_op # "Record"
      /\ LET before == States["Routes"][ViaPlace].regex
             n      == Len(RuleLoadBalanced.regex)
         IN  /\ Len(before) >= n
             /\ SubSeq(before, 1, n) = RuleLoadBalanced.regex
             /\ \A k \in (n + 1)..Len(before) : before[k].t = "opt"
      /\ \A i \in DOMAIN log :
           /\ StateAt(i) = "Routes" => log[i].rule # LoadBalancedPlace
           /\ LoadBalancedMatches(log[i].line) =>
                /\ CheckRule("Routes", ViaPlace, log[i].line).ok
                /\ StateAt(i) = "Routes" => log[i].rule <= ViaPlace
\* A line with distance, metric and next hop only, which the load-balanced
\* rule matches, was recorded by the rule before it.
C20_Witness ==
    /\ pc = "done"
    /\ \E i \in Recording :
         /\ log[i].line = LineViaShort
         /\ LoadBalancedMatches(log[i].line)
         /\ log[i].rule = ViaPlace
         /\ Field(i, "UPTIME") = EmptyStr /\ Field(i, "NEXTHOP_IF") = EmptyStr
====
